---- MODULE Spec2Model ----
(***************************************************************************)
(* Verification model of cartographer_ros' submap texture cache:           *)
(*   - cartographer_rviz DrawableSubmap (src/unnamed/part_000): one tile   *)
(*     of the rviz display, fetched by std::async tasks under mutex_;      *)
(*   - the occupancy grid Node (src/unnamed/part_001): the slice table     *)
(*     filled by HandleSubmapList and drawn by DrawAndPublish.             *)
(* The two are separate programs. Functions checked on their own are run   *)
(* through `call`: FetchSubmapTexture, the packing and unpacking of one    *)
(* pixel, DrawableSubmap::SetAlpha, Node::PublishOccupancyGrid, and Run    *)
(* and RangeDataChecker of rosbag_validate_main.cc. A behaviour of the     *)
(* model is a run of one of them: Init picks `program`, and every action   *)
(* belongs to one program.                                                 *)
(***************************************************************************)
EXTENDS Integers, Sequences, FiniteSets, TLC

\* ------------------------------------------------------------------ bounds
NumCallers == 2
MaxTasks == 2
MaxVersion == 1
MaxTicks == 3
MaxFetches == 2
NumSubmaps == 1
MaxDim == 2
MaxAlphaCalls == 2
MaxGridDim == 3
MaxMessages == 3
MaxStamp == 2
MaxChecks == 5

\* --------------------------------------------------------------- constants
kMinQueryDelayInMs == 250
\* The largest value of a char / uint8_t.
MaxByte == 255
\* First bytes of the payloads tried: one makes the bytes wrap around.
ByteSeeds == {0, 250}
\* Alpha bytes tried with every intensity byte.
AlphaBytes == {0, 1, 128, 255}
\* SetAlpha computes in double and float. A distance of d metres is held as
\* the integer d * UnitsPerMeter and an alpha a as a * AlphaOne; on the
\* heights tried below every intermediate value of SetAlpha is such an
\* integer, and the comparisons come out as they do in float.
UnitsPerMeter == 80
AlphaOne == 160
kFadeOutStartDistanceInMeters == 1
kFadeOutDistanceInMeters == 2
\* 0.2f, in units of alpha.
kAlphaUpdateThreshold == 32
\* The n of LOG_FIRST_N(ERROR, n) in RangeDataChecker::CheckMessage.
kLogFirstN == 3
\* Heights of the tracking frame: every 1/8 m from -3.125 m to 3.125 m, and
\* 1.9 m either side, where the target alpha is 0.55.
TrackingZs == {10 * k : k \in -25..25} \cup {-152, 152}

Versions == 0..MaxVersion
\* Two poses tell a pose that was updated from one that was not.
Poses == {0, 1}
Callers == 1..NumCallers
TaskIds == 1..MaxTasks
\* The clock advances in steps that make both last+249 and last+250 occur.
TickSteps == {kMinQueryDelayInMs \div 2 - 1, kMinQueryDelayInMs \div 2}
\* The clock is followed for MaxTicks steps from its first reading.
MaxNow == kMinQueryDelayInMs + MaxTicks * (kMinQueryDelayInMs \div 2)
\* What the remote fetch hands back to its caller: nullptr, a result whose
\* texture list is empty, or a result with at least one texture.
FetchOutcomes == {"null", "empty", "ok"}
\* The occupancy grid node: submap ids, texture bodies (one value stands for
\* the width, height, resolution, slice pose and pixels of one fetched
\* texture), header frame ids and stamps.
SubmapIds == 1..NumSubmaps
Bodies == {1, 2}
FrameIds == {"", "map"}
Stamps == {0, 1}

VARIABLES
  program,                \* which program this behaviour runs
  now,                    \* std::chrono::system_clock, in ms
  mutex_,                 \* DrawableSubmap::mutex_: its holder
  metadata_version_,
  pose_,
  visibility_name_,       \* version shown in the visibility_ property name
  submap_textures_,       \* the cached SubmapTextures (present = non-null)
  query_in_progress_,
  last_query_timestamp_,
  rpc_request_future_,    \* task the future refers to, 0 when none yet
  tasks,                  \* the std::async tasks
  callers,                \* threads inside MaybeFetchTexture
  updater,                \* the thread inside Update
  signals,                \* queued RequestSucceeded events
  slot,                   \* the thread running UpdateSceneNode
  ogre_submap_,           \* texture last handed to the scene node
  dtor,                   \* position of ~DrawableSubmap
  attempts,               \* history: clock readings of accepted attempts
  installs,               \* history: number of textures installed so far
  node_mutex_,            \* Node::mutex_: its holder
  spinner,                \* the callback ros::spin() is running
  num_subscribers,        \* occupancy_grid_publisher_.getNumSubscribers()
  submap_slices_,
  last_frame_id_,
  last_timestamp_,
  handler,                \* position of HandleSubmapList
  drawer,                 \* position of DrawAndPublish
  published,              \* the grid the running callback has published
  aborted,                \* a CHECK failed
  call                    \* the call of a function run on its own

dvars == <<now, mutex_, metadata_version_, pose_, visibility_name_,
           submap_textures_, query_in_progress_, last_query_timestamp_,
           rpc_request_future_, tasks, callers, updater, signals, slot,
           ogre_submap_, dtor, attempts, installs>>

nvars == <<node_mutex_, spinner, num_subscribers, submap_slices_,
           last_frame_id_, last_timestamp_, handler, drawer, published,
           aborted>>

vars == <<program, call, dvars, nvars>>

Free == <<"free", 0>>
NoTextures == [present |-> FALSE, version |-> 0, count |-> 0, seq |-> 0]
NoTask == [pc |-> "none", result |-> "null", version |-> 0,
           before |-> NoTextures, installed |-> FALSE, emitted |-> FALSE]
IdleCaller == [pc |-> "idle", now |-> 0, task |-> 0]
IdleUpdater == [pc |-> "idle", version |-> 0, pose |-> 0]
IdleSlot == [pc |-> "idle", signal |-> 0]
NoFetch == [version |-> -1, body |-> 0]
\* A SubmapSlice as its default constructor leaves it; `listed` tells whether
\* submap_slices_ holds the id, `fetched` is the texture last taken from a
\* fetch for it.
NoSlice == [listed |-> FALSE, pose |-> 0, metadata_version |-> -1,
            version |-> -1, dims |-> 0, cairo_data |-> 0, surface |-> 0,
            fetched |-> NoFetch]
\* HandleSubmapList: `seen` are the ids of the entries of msg->submap the
\* loop has read so far, `entry` is the one it is at. The entries of the list
\* (each submap once, by ascending id) are drawn as the loop reads them, the
\* header where lines 161-162 read it.
NoEntry == [id |-> 0, version |-> 0, pose |-> 0]
\* fetched_textures: what the fetch for the current entry returned;
\* delivered: the entry the loop has read last, kept while the handler runs.
IdleHandler == [pc |-> "idle", seen |-> {}, entry |-> NoEntry,
                fetched_textures |-> "unset", delivered |-> NoEntry]
NoGrid == [sent |-> FALSE, frame_id |-> "", stamp |-> 0]

\* Tasks that were launched and have not yet cleared query_in_progress_.
InFlight == {t \in TaskIds : tasks[t].pc \in {"fetching", "waitlock", "clear"}}

\* ------------------------------------------------- functions run alone
NoCall == [pc |-> "none"]

\* A decompressed payload: bytes that differ from position to position.
Cells(len, seed) == [k \in 1..len |-> (seed + k) % (MaxByte + 1)]

\* What client->call hands to FetchSubmapTexture: a failed call, a response
\* without textures, or a response whose first texture has a width, a height
\* and cells of any length around 2 * width * height.
Responses ==
  {[pc |-> "called", response |-> r, width |-> 0, height |-> 0, cells |-> <<>>] :
     r \in {"failed", "no_textures"}}
  \cup
  {[pc |-> "called", response |-> "texture", width |-> w, height |-> h,
    cells |-> Cells(len, seed)] :
     w \in 0..MaxDim, h \in 0..MaxDim,
     len \in 0..(2 * MaxDim * MaxDim + 1), seed \in ByteSeeds}

\* One pixel of a fetched texture: its intensity and alpha bytes.
Pixels ==
  {[pc |-> "texture", intensity |-> i, alpha |-> a] :
     i \in 0..MaxByte, a \in AlphaBytes}

\* The pixel of a painted surface at position i (counted from 1, row by row):
\* colours step through the byte range, every fifth pixel was never observed.
SurfacePixel(i, seed) ==
  [a |-> MaxByte, r |-> (seed + 25 * i) % (MaxByte + 1),
   g |-> IF (i + seed) % 5 = 0 THEN 0 ELSE MaxByte, b |-> 0]

\* What PaintSubmapSlices hands to PublishOccupancyGrid: a surface of some
\* width and height with its width * height pixels.
Surfaces ==
  {[pc |-> "painted", width |-> w, height |-> h,
    pixel_data |-> [i \in 1..(w * h) |-> SurfacePixel(i, seed)]] :
     w \in 0..MaxGridDim, h \in 0..MaxGridDim, seed \in ByteSeeds}

\* The bag validator: frame ids and header stamps of the messages of a bag,
\* and the message types Run tells apart, one with a header it looks at and
\* one it passes over.
BagFrameIds == {"imu_link", "laser"}
BagStamps == 0..MaxStamp
BagTypes == {"sensor_msgs/Imu", "tf2_msgs/TFMessage"}
\* A frame id that frame_id_to_properties does not hold; `received` counts
\* the messages Run has taken for the frame id, `stamp` is the header stamp
\* of the latest of them.
NoProperties == [present |-> FALSE, last_timestamp |-> 0,
                 time_deltas |-> <<>>, received |-> 0, stamp |-> 0]
\* Run after line 197, before the first message of the bag.
Bags ==
  {[pc |-> "reading", message_index |-> 0,
    frame_id_to_properties |-> [f \in BagFrameIds |-> NoProperties],
    max_time_delta |-> [f \in BagFrameIds |-> 0]]}

\* RangeDataChecker. A point, and a sum of points, is a float vector held as
\* one number, or not a number.
Zero == [nan |-> FALSE, value |-> 0]
NaN == [nan |-> TRUE, value |-> 0]
Point(value) == [nan |-> FALSE, value |-> value]
\* The point clouds ToPointCloudWithIntensities makes of the messages: none
\* without points, two of one point, one of two points with the sum of one
\* of these, and one with a point that is not a number.
PointClouds ==
  {<<>>, <<Point(1)>>, <<Point(2)>>, <<Point(1), Point(1)>>, <<NaN>>}
\* The message types CheckMessage is instantiated for that are tried.
RangeTypes == {"sensor_msgs/LaserScan", "sensor_msgs/PointCloud2"}
\* A frame id that frame_id_to_range_checksum does not hold.
NoChecksum == [present |-> FALSE, first |-> 0, second |-> Zero]
NoRangeMessage == [type |-> "", frame_id |-> "", points |-> <<>>]
\* A RangeDataChecker as constructed. LOG_OCCURRENCES is the counter of the
\* LOG_FIRST_N statement, one for each instantiation of CheckMessage.
\* Kept beside the members: the message checked last and whether it was
\* reported; `recent`, the points of the latest non-empty message of each
\* frame id, and `earlier`, what `recent` held for the frame id of the
\* message when it arrived; `duplicates`, for each type the number of
\* messages so far whose checksum equalled that of `earlier`.
Checkers ==
  {[pc |-> "constructed",
    frame_id_to_range_checksum |-> [f \in BagFrameIds |-> NoChecksum],
    LOG_OCCURRENCES |-> [t \in RangeTypes |-> 0],
    checks |-> 0, message |-> NoRangeMessage, reported |-> FALSE,
    recent |-> [f \in BagFrameIds |-> <<>>], earlier |-> <<>>,
    duplicates |-> [t \in RangeTypes |-> 0]]}

\* A tile at height 0 on which SetAlpha has not been called yet. The member
\* current_alpha_ is declared outside these sources: it starts fully
\* transparent or fully opaque.
Tiles ==
  {[pc |-> "constructed", pose_z |-> 0, current_alpha_ |-> a,
    ogre_alpha |-> a, calls |-> 0, current_tracking_z |-> 0,
    previous_alpha |-> a, target_alpha |-> a] : a \in {0, AlphaOne}}

Init ==
  /\ program \in {"rviz", "occupancy_grid_node", "FetchSubmapTexture",
                  "pixel", "SetAlpha", "PublishOccupancyGrid",
                  "rosbag_validate", "RangeDataChecker"}
  /\ call \in CASE program = "FetchSubmapTexture" -> Responses
               [] program = "pixel" -> Pixels
               [] program = "SetAlpha" -> Tiles
               [] program = "PublishOccupancyGrid" -> Surfaces
               [] program = "rosbag_validate" -> Bags
               [] program = "RangeDataChecker" -> Checkers
               [] OTHER -> {NoCall}
  /\ now = kMinQueryDelayInMs
  /\ mutex_ = Free
  /\ metadata_version_ = 0
  /\ pose_ = 0
  /\ visibility_name_ = 0
  /\ submap_textures_ = NoTextures
  /\ query_in_progress_ = FALSE
  /\ last_query_timestamp_ = 0
  /\ rpc_request_future_ = 0
  /\ tasks = [t \in TaskIds |-> NoTask]
  /\ callers = [c \in Callers |-> IdleCaller]
  /\ updater = IdleUpdater
  /\ signals = <<>>
  /\ slot = IdleSlot
  /\ ogre_submap_ = NoTextures
  /\ dtor = "alive"
  /\ attempts = <<>>
  /\ installs = 0
  /\ node_mutex_ = Free
  /\ spinner = "none"
  /\ num_subscribers = 0
  /\ submap_slices_ = [id \in SubmapIds |-> NoSlice]
  /\ last_frame_id_ = ""
  /\ last_timestamp_ = 0
  /\ handler = IdleHandler
  /\ drawer = "idle"
  /\ published = NoGrid
  /\ aborted = FALSE

\* ------------------------------------------------------------------ clock
Tick ==
  /\ program = "rviz"
  /\ \E d \in TickSteps :
       /\ now + d <= MaxNow
       /\ now' = now + d
  /\ UNCHANGED <<nvars, program, call, mutex_, metadata_version_, pose_, visibility_name_,
                 submap_textures_, query_in_progress_, last_query_timestamp_,
                 rpc_request_future_, tasks, callers, updater, signals, slot,
                 ogre_submap_, dtor, attempts, installs>>

\* --------------------------------------------- DrawableSubmap::Update
\* Update(header, metadata): takes mutex_ for the whole body.
U_Lock(v, p) ==
  /\ program = "rviz" /\ dtor = "alive"
  /\ updater.pc = "idle"
  /\ mutex_ = Free
  /\ mutex_' = <<"update", 0>>
  /\ updater' = [pc |-> "locked", version |-> v, pose |-> p]
  /\ UNCHANGED <<nvars, program, call, now, metadata_version_, pose_, visibility_name_,
                 submap_textures_, query_in_progress_, last_query_timestamp_,
                 rpc_request_future_, tasks, callers, signals, slot,
                 ogre_submap_, dtor, attempts, installs>>

\* An Update that puts the pose aside while a fetch is in flight.
U_Update_NotInFlight ==
  /\ program = "rviz"
  /\ updater.pc = "locked"
  /\ metadata_version_' = updater.version
  /\ pose_' = IF query_in_progress_ THEN pose_ ELSE updater.pose
  /\ visibility_name_' = updater.version
  /\ updater' = IdleUpdater
  /\ mutex_' = Free
  /\ UNCHANGED <<nvars, program, call, now,
                 submap_textures_, query_in_progress_, last_query_timestamp_,
                 rpc_request_future_, tasks, callers, signals, slot,
                 ogre_submap_, dtor, attempts, installs>>

\* The body of Update, run with mutex_ held: metadata_version_, pose_ and the
\* visibility name (built from the new metadata_version_), then the unlock.
U_Update ==
  /\ program = "rviz"
  /\ updater.pc = "locked"
  /\ metadata_version_' = updater.version
  /\ pose_' = updater.pose
  /\ visibility_name_' = updater.version
  /\ updater' = IdleUpdater
  /\ mutex_' = Free
  /\ UNCHANGED <<nvars, program, call, now,
                 submap_textures_, query_in_progress_, last_query_timestamp_,
                 rpc_request_future_, tasks, callers, signals, slot,
                 ogre_submap_, dtor, attempts, installs>>

\* ---------------------------------- DrawableSubmap::MaybeFetchTexture
\* A comparison that takes only a higher metadata version for a newer one.
newer_version_available_OnlyHigher(textures, metadata_version) ==
  \/ ~textures.present
  \/ textures.version < metadata_version

newer_version_available(textures, metadata_version) ==
  \/ ~textures.present
  \/ textures.version # metadata_version

\* Comparisons that are off by one millisecond, either way.
recently_queried_Inclusive(last, t) == last + kMinQueryDelayInMs >= t

recently_queried_OneShort(last, t) == last + kMinQueryDelayInMs - 1 > t

recently_queried(last, t) == last + kMinQueryDelayInMs > t

\* A scheduler that forgets the in-flight guard.
FetchRejected_NoInFlightGuard(newer, recent, in_progress) ==
  ~newer \/ recent

FetchRejected(newer, recent, in_progress) ==
  ~newer \/ recent \/ in_progress

MFT_Lock(c) ==
  /\ program = "rviz" /\ dtor = "alive"
  /\ callers[c].pc = "idle"
  /\ Len(attempts) < MaxFetches
  /\ mutex_ = Free
  /\ mutex_' = <<"caller", c>>
  /\ callers' = [callers EXCEPT ![c].pc = "check"]
  /\ UNCHANGED <<nvars, program, call, now, metadata_version_, pose_, visibility_name_,
                 submap_textures_, query_in_progress_, last_query_timestamp_,
                 rpc_request_future_, tasks, updater, signals, slot,
                 ogre_submap_, dtor, attempts, installs>>

\* A decision that records the clock reading also when it rejects the call.
MFT_Check_StampOnReject(c) ==
  /\ program = "rviz"
  /\ callers[c].pc = "check"
  /\ IF FetchRejected(
          newer_version_available(submap_textures_, metadata_version_),
          recently_queried(last_query_timestamp_, now),
          query_in_progress_)
     THEN /\ callers' = [callers EXCEPT ![c] = IdleCaller]
          /\ mutex_' = Free
          /\ last_query_timestamp_' = now
     ELSE /\ callers' = [callers EXCEPT ![c].pc = "set", ![c].now = now]
          /\ UNCHANGED <<mutex_, last_query_timestamp_>>
  /\ UNCHANGED <<nvars, program, call, now, metadata_version_, pose_, visibility_name_,
                 submap_textures_, query_in_progress_,
                 rpc_request_future_, tasks, updater, signals, slot,
                 ogre_submap_, dtor, attempts, installs>>

\* Lines 119-129: the decision; `return false` releases the lock.
MFT_Check(c) ==
  /\ program = "rviz"
  /\ callers[c].pc = "check"
  /\ IF FetchRejected(
          newer_version_available(submap_textures_, metadata_version_),
          recently_queried(last_query_timestamp_, now),
          query_in_progress_)
     THEN /\ callers' = [callers EXCEPT ![c] = IdleCaller]
          /\ mutex_' = Free
     ELSE /\ callers' = [callers EXCEPT ![c].pc = "set", ![c].now = now]
          /\ UNCHANGED mutex_
  /\ UNCHANGED <<nvars, program, call, now, metadata_version_, pose_, visibility_name_,
                 submap_textures_, query_in_progress_, last_query_timestamp_,
                 rpc_request_future_, tasks, updater, signals, slot,
                 ogre_submap_, dtor, attempts, installs>>

\* Lines 130-131.
MFT_Set(c) ==
  /\ program = "rviz"
  /\ callers[c].pc = "set"
  /\ query_in_progress_' = TRUE
  /\ last_query_timestamp_' = callers[c].now
  /\ attempts' = Append(attempts, callers[c].now)
  /\ callers' = [callers EXCEPT ![c].pc = "launch"]
  /\ UNCHANGED <<nvars, program, call, now, mutex_, metadata_version_, pose_,
                 visibility_name_, submap_textures_, rpc_request_future_,
                 tasks, updater, signals, slot, ogre_submap_, dtor, installs>>

\* Line 132, right-hand side: std::async starts the task's thread.
MFT_Launch(c) ==
  /\ program = "rviz"
  /\ callers[c].pc = "launch"
  /\ \E t \in TaskIds :
       /\ tasks[t].pc = "none"
       /\ \A u \in TaskIds : tasks[u].pc = "none" => t <= u
       /\ tasks' = [tasks EXCEPT ![t] = [NoTask EXCEPT !.pc = "fetching"]]
       /\ callers' = [callers EXCEPT ![c].pc = "assign", ![c].task = t]
  /\ UNCHANGED <<nvars, program, call, now, mutex_, metadata_version_, pose_,
                 visibility_name_, submap_textures_, query_in_progress_,
                 last_query_timestamp_, rpc_request_future_, updater, signals,
                 slot, ogre_submap_, dtor, attempts, installs>>

\* Line 132, the assignment: the future of std::async that is overwritten
\* blocks until its task has finished. Then line 145 returns true.
MFT_Assign(c) ==
  /\ program = "rviz"
  /\ callers[c].pc = "assign"
  /\ IF rpc_request_future_ = 0 THEN TRUE
     ELSE tasks[rpc_request_future_].pc = "done"
  /\ tasks' = IF rpc_request_future_ = 0 THEN tasks
              ELSE [tasks EXCEPT ![rpc_request_future_] = NoTask]
  /\ rpc_request_future_' = callers[c].task
  /\ callers' = [callers EXCEPT ![c] = IdleCaller]
  /\ mutex_' = Free
  /\ UNCHANGED <<nvars, program, call, now, metadata_version_, pose_, visibility_name_,
                 submap_textures_, query_in_progress_, last_query_timestamp_,
                 updater, signals, slot, ogre_submap_, dtor, attempts,
                 installs>>

\* ------------------------------------------------- the async fetch task
\* Line 134: FetchSubmapTextures returns, without the lock held.
T_Return(t) ==
  /\ program = "rviz"
  /\ tasks[t].pc = "fetching"
  /\ \E r \in FetchOutcomes, v \in Versions :
       tasks' = [tasks EXCEPT ![t].pc = "waitlock", ![t].result = r,
                              ![t].version = IF r = "null" THEN 0 ELSE v]
  /\ UNCHANGED <<nvars, program, call, now, mutex_, metadata_version_, pose_,
                 visibility_name_, submap_textures_, query_in_progress_,
                 last_query_timestamp_, rpc_request_future_, callers, updater,
                 signals, slot, ogre_submap_, dtor, attempts, installs>>

\* Line 135.
T_Lock(t) ==
  /\ program = "rviz"
  /\ tasks[t].pc = "waitlock"
  /\ mutex_ = Free
  /\ mutex_' = <<"task", t>>
  /\ tasks' = [tasks EXCEPT ![t].pc = "clear", ![t].before = submap_textures_]
  /\ UNCHANGED <<nvars, program, call, now, metadata_version_, pose_, visibility_name_,
                 submap_textures_, query_in_progress_, last_query_timestamp_,
                 rpc_request_future_, callers, updater, signals, slot,
                 ogre_submap_, dtor, attempts, installs>>

\* A task that clears the flag only when the fetch succeeded.
FlagAfterFetch_OnlyOnSuccess(result) == result # "ok"

\* Line 136: the value the task stores into query_in_progress_.
FlagAfterFetch(result) == FALSE

T_Clear(t) ==
  /\ program = "rviz"
  /\ tasks[t].pc = "clear"
  /\ query_in_progress_' = FlagAfterFetch(tasks[t].result)
  /\ tasks' = [tasks EXCEPT ![t].pc = "check"]
  /\ UNCHANGED <<nvars, program, call, now, mutex_, metadata_version_, pose_,
                 visibility_name_, submap_textures_, last_query_timestamp_,
                 rpc_request_future_, callers, updater, signals, slot,
                 ogre_submap_, dtor, attempts, installs>>

\* A test that forgets the empty texture list.
FetchSucceeded_NonNull(result) == result # "null"

\* Line 137: submap_textures != nullptr && !submap_textures->textures.empty()
FetchSucceeded(result) == result # "null" /\ result # "empty"

\* A task that emits RequestSucceeded also when the fetch failed.
T_Check_EmitsOnFailure(t) ==
  /\ program = "rviz"
  /\ tasks[t].pc = "check"
  /\ tasks' = [tasks EXCEPT ![t].pc = IF FetchSucceeded(tasks[t].result)
                                      THEN "install" ELSE "emit"]
  /\ UNCHANGED <<nvars, program, call, now, mutex_, metadata_version_, pose_,
                 visibility_name_, submap_textures_, query_in_progress_,
                 last_query_timestamp_, rpc_request_future_, callers, updater,
                 signals, slot, ogre_submap_, dtor, attempts, installs>>

T_Check(t) ==
  /\ program = "rviz"
  /\ tasks[t].pc = "check"
  /\ tasks' = [tasks EXCEPT ![t].pc = IF FetchSucceeded(tasks[t].result)
                                      THEN "install" ELSE "unlock"]
  /\ UNCHANGED <<nvars, program, call, now, mutex_, metadata_version_, pose_,
                 visibility_name_, submap_textures_, query_in_progress_,
                 last_query_timestamp_, rpc_request_future_, callers, updater,
                 signals, slot, ogre_submap_, dtor, attempts, installs>>

\* Line 141.
T_Install(t) ==
  /\ program = "rviz"
  /\ tasks[t].pc = "install"
  /\ submap_textures_' = [present |-> TRUE, version |-> tasks[t].version,
                          count |-> IF tasks[t].result = "ok" THEN 1 ELSE 0,
                          seq |-> installs + 1]
  /\ installs' = installs + 1
  /\ tasks' = [tasks EXCEPT ![t].pc = "emit", ![t].installed = TRUE]
  /\ UNCHANGED <<nvars, program, call, now, mutex_, metadata_version_, pose_,
                 visibility_name_, query_in_progress_, last_query_timestamp_,
                 rpc_request_future_, callers, updater, signals, slot,
                 ogre_submap_, dtor, attempts>>

\* A direct connection: emit calls the slot in the task's thread, and the
\* slot waits for the mutex_ the task holds.
T_Emit_DirectConnection(t) ==
  /\ program = "rviz"
  /\ tasks[t].pc = "emit"
  /\ mutex_ = Free
  /\ ogre_submap_' = submap_textures_
  /\ tasks' = [tasks EXCEPT ![t].pc = "unlock", ![t].emitted = TRUE]
  /\ UNCHANGED <<nvars, program, call, now, mutex_, metadata_version_, pose_,
                 visibility_name_, submap_textures_, query_in_progress_,
                 last_query_timestamp_, rpc_request_future_, callers, updater,
                 signals, slot, dtor, attempts, installs>>

\* Line 142: the task's thread is never the receiver's, so the connection of
\* line 84 queues the call of the slot.
T_Emit(t) ==
  /\ program = "rviz"
  /\ tasks[t].pc = "emit"
  /\ signals' = Append(signals, installs)
  /\ tasks' = [tasks EXCEPT ![t].pc = "unlock", ![t].emitted = TRUE]
  /\ UNCHANGED <<nvars, program, call, now, mutex_, metadata_version_, pose_,
                 visibility_name_, submap_textures_, query_in_progress_,
                 last_query_timestamp_, rpc_request_future_, callers, updater,
                 slot, ogre_submap_, dtor, attempts, installs>>

\* Line 144: the locker of line 135 goes out of scope.
T_Unlock(t) ==
  /\ program = "rviz"
  /\ tasks[t].pc = "unlock"
  /\ mutex_' = Free
  /\ tasks' = [tasks EXCEPT ![t] = [NoTask EXCEPT !.pc = "exiting"]]
  /\ UNCHANGED <<nvars, program, call, now, metadata_version_, pose_, visibility_name_,
                 submap_textures_, query_in_progress_, last_query_timestamp_,
                 rpc_request_future_, callers, updater, signals, slot,
                 ogre_submap_, dtor, attempts, installs>>

\* The task's thread ends and makes its future ready.
T_Exit(t) ==
  /\ program = "rviz"
  /\ tasks[t].pc = "exiting"
  /\ tasks' = [tasks EXCEPT ![t].pc = "done"]
  /\ UNCHANGED <<nvars, program, call, now, mutex_, metadata_version_, pose_,
                 visibility_name_, submap_textures_, query_in_progress_,
                 last_query_timestamp_, rpc_request_future_, callers, updater,
                 signals, slot, ogre_submap_, dtor, attempts, installs>>

\* --------------------------------------- DrawableSubmap::UpdateSceneNode
\* A slot that reads the cache without taking mutex_.
US_Lock_NoMutex ==
  /\ program = "rviz" /\ dtor = "alive"
  /\ slot.pc = "idle"
  /\ signals # <<>>
  /\ slot' = [pc |-> "update", signal |-> Head(signals)]
  /\ signals' = Tail(signals)
  /\ UNCHANGED <<nvars, program, call, now, mutex_, metadata_version_, pose_,
                 visibility_name_, submap_textures_, query_in_progress_,
                 last_query_timestamp_, rpc_request_future_, tasks, callers,
                 updater, ogre_submap_, dtor, attempts, installs>>

\* The queued RequestSucceeded is delivered and the slot takes mutex_.
US_Lock ==
  /\ program = "rviz" /\ dtor = "alive"
  /\ slot.pc = "idle"
  /\ signals # <<>>
  /\ mutex_ = Free
  /\ mutex_' = <<"slot", 0>>
  /\ slot' = [pc |-> "update", signal |-> Head(signals)]
  /\ signals' = Tail(signals)
  /\ UNCHANGED <<nvars, program, call, now, metadata_version_, pose_, visibility_name_,
                 submap_textures_, query_in_progress_, last_query_timestamp_,
                 rpc_request_future_, tasks, callers, updater, ogre_submap_,
                 dtor, attempts, installs>>

\* Line 172.
US_Update ==
  /\ program = "rviz"
  /\ slot.pc = "update"
  /\ ogre_submap_' = submap_textures_
  /\ slot' = IdleSlot
  /\ mutex_' = Free
  /\ UNCHANGED <<nvars, program, call, now, metadata_version_, pose_, visibility_name_,
                 submap_textures_, query_in_progress_, last_query_timestamp_,
                 rpc_request_future_, tasks, callers, updater, signals, dtor,
                 attempts, installs>>

\* ------------------------------------- DrawableSubmap::~DrawableSubmap
\* The owner destroys the tile when none of its threads is inside a member
\* function; fetch tasks and queued signals may still be outstanding.
D_Start ==
  /\ program = "rviz"
  /\ dtor = "alive"
  /\ \A c \in Callers : callers[c].pc = "idle"
  /\ updater.pc = "idle"
  /\ slot.pc = "idle"
  /\ dtor' = "query"
  /\ UNCHANGED <<nvars, program, call, now, mutex_, metadata_version_, pose_,
                 visibility_name_, submap_textures_, query_in_progress_,
                 last_query_timestamp_, rpc_request_future_, tasks, callers,
                 updater, signals, slot, ogre_submap_, attempts, installs>>

\* A destructor that never waits for the future.
DestructorWaits_Never(in_progress) == FALSE

\* Line 90: whether the destructor waits for the future.
DestructorWaits(in_progress) == in_progress

\* Lines 90 and 148-151: QueryInProgress() reads the flag under mutex_.
D_Query ==
  /\ program = "rviz"
  /\ dtor = "query"
  /\ mutex_ = Free
  /\ dtor' = IF DestructorWaits(query_in_progress_) THEN "wait" ELSE "destroy"
  /\ UNCHANGED <<nvars, program, call, now, mutex_, metadata_version_, pose_,
                 visibility_name_, submap_textures_, query_in_progress_,
                 last_query_timestamp_, rpc_request_future_, tasks, callers,
                 updater, signals, slot, ogre_submap_, attempts, installs>>

\* Line 91.
D_Wait ==
  /\ program = "rviz"
  /\ dtor = "wait"
  /\ rpc_request_future_ # 0
  /\ tasks[rpc_request_future_].pc = "done"
  /\ dtor' = "destroy"
  /\ UNCHANGED <<nvars, program, call, now, mutex_, metadata_version_, pose_,
                 visibility_name_, submap_textures_, query_in_progress_,
                 last_query_timestamp_, rpc_request_future_, tasks, callers,
                 updater, signals, slot, ogre_submap_, attempts, installs>>

\* Lines 93-94: the scene nodes are released. Qt drops the queued signals of
\* a destroyed receiver.
D_Destroy ==
  /\ program = "rviz"
  /\ dtor = "destroy"
  /\ dtor' = "destroyed"
  /\ signals' = <<>>
  /\ UNCHANGED <<nvars, program, call, now, mutex_, metadata_version_, pose_,
                 visibility_name_, submap_textures_, query_in_progress_,
                 last_query_timestamp_, rpc_request_future_, tasks, callers,
                 updater, slot, ogre_submap_, attempts, installs>>

RvizNext ==
  \/ Tick
  \/ \E v \in Versions, p \in Poses : U_Lock(v, p)
  \/ U_Update
  \/ \E c \in Callers : MFT_Lock(c)
  \/ \E c \in Callers : MFT_Check(c)
  \/ \E c \in Callers : MFT_Set(c)
  \/ \E c \in Callers : MFT_Launch(c)
  \/ \E c \in Callers : MFT_Assign(c)
  \/ \E t \in TaskIds : T_Return(t)
  \/ \E t \in TaskIds : T_Lock(t)
  \/ \E t \in TaskIds : T_Clear(t)
  \/ \E t \in TaskIds : T_Check(t)
  \/ \E t \in TaskIds : T_Install(t)
  \/ \E t \in TaskIds : T_Emit(t)
  \/ \E t \in TaskIds : T_Unlock(t)
  \/ \E t \in TaskIds : T_Exit(t)
  \/ US_Lock
  \/ US_Update
  \/ D_Start
  \/ D_Query
  \/ D_Wait
  \/ D_Destroy

\* ====================================================== occupancy grid node
Subscribe ==
  /\ program = "occupancy_grid_node" /\ ~aborted
  /\ num_subscribers' = 1 - num_subscribers
  /\ UNCHANGED <<program, call, dvars, node_mutex_, spinner, submap_slices_,
                 last_frame_id_, last_timestamp_, handler, drawer, published,
                 aborted>>

\* ------------------------------------------------ Node::HandleSubmapList
\* ros::spin() runs one callback at a time. Line 100.
H_Lock ==
  /\ program = "occupancy_grid_node" /\ ~aborted
  /\ spinner = "none"
  /\ node_mutex_ = Free
  /\ spinner' = "HandleSubmapList"
  /\ node_mutex_' = <<"handler", 0>>
  /\ handler' = [IdleHandler EXCEPT !.pc = "subscribers"]
  /\ published' = NoGrid
  /\ UNCHANGED <<program, call, dvars, num_subscribers, submap_slices_,
                 last_frame_id_, last_timestamp_, drawer, aborted>>

\* A handler that goes through the list whether or not anybody listens.
H_Subscribers_Ignored ==
  /\ program = "occupancy_grid_node"
  /\ handler.pc = "subscribers"
  /\ handler' = [handler EXCEPT !.pc = "entry"]
  /\ UNCHANGED <<program, call, dvars, node_mutex_, spinner, num_subscribers,
                 submap_slices_, last_frame_id_, last_timestamp_, drawer,
                 published, aborted>>

\* Lines 103-105.
H_Subscribers ==
  /\ program = "occupancy_grid_node"
  /\ handler.pc = "subscribers"
  /\ IF num_subscribers = 0
     THEN /\ handler' = IdleHandler
          /\ spinner' = "none"
          /\ node_mutex_' = Free
     ELSE /\ handler' = [handler EXCEPT !.pc = "entry"]
          /\ UNCHANGED <<spinner, node_mutex_>>
  /\ UNCHANGED <<program, call, dvars, num_subscribers, submap_slices_,
                 last_frame_id_, last_timestamp_, drawer, published, aborted>>

\* A handler that fetches for every listed entry.
SliceUpToDate_Never(slice, submap_version) == FALSE

\* A handler that never fetches again for a slice that has a surface.
SliceUpToDate_SurfaceOnly(slice, submap_version) == slice.surface # 0

\* Lines 111-112: the texture is up to date, no fetch.
SliceUpToDate(slice, submap_version) ==
  slice.surface # 0 /\ slice.version = submap_version

\* An operator[] that hands out a new slice which already has a surface.
H_Entry_WithSurface(e) ==
  /\ program = "occupancy_grid_node"
  /\ handler.pc = "entry"
  /\ \A id \in handler.seen : id < e.id
  /\ LET slice == [submap_slices_[e.id] EXCEPT
                     !.listed = TRUE, !.pose = e.pose,
                     !.metadata_version = e.version,
                     !.surface = IF submap_slices_[e.id].listed THEN @ ELSE 1]
     IN /\ submap_slices_' = [submap_slices_ EXCEPT ![e.id] = slice]
        /\ handler' = IF SliceUpToDate(slice, e.version)
                       THEN [pc |-> "entry", entry |-> NoEntry,
                             seen |-> handler.seen \cup {e.id},
                             fetched_textures |-> "unset", delivered |-> e]
                       ELSE [pc |-> "fetch", entry |-> e,
                             seen |-> handler.seen \cup {e.id},
                             fetched_textures |-> "unset", delivered |-> e]
  /\ UNCHANGED <<program, call, dvars, node_mutex_, spinner, num_subscribers,
                 last_frame_id_, last_timestamp_, drawer, published, aborted>>

\* Lines 106-114: the next entry of the list; operator[] creates the slice.
H_Entry(e) ==
  /\ program = "occupancy_grid_node"
  /\ handler.pc = "entry"
  /\ \A id \in handler.seen : id < e.id
  /\ LET slice == [submap_slices_[e.id] EXCEPT
                     !.listed = TRUE, !.pose = e.pose,
                     !.metadata_version = e.version]
     IN /\ submap_slices_' = [submap_slices_ EXCEPT ![e.id] = slice]
        /\ handler' = IF SliceUpToDate(slice, e.version)
                       THEN [pc |-> "entry", entry |-> NoEntry,
                             seen |-> handler.seen \cup {e.id},
                             fetched_textures |-> "unset", delivered |-> e]
                       ELSE [pc |-> "fetch", entry |-> e,
                             seen |-> handler.seen \cup {e.id},
                             fetched_textures |-> "unset", delivered |-> e]
  /\ UNCHANGED <<program, call, dvars, node_mutex_, spinner, num_subscribers,
                 last_frame_id_, last_timestamp_, drawer, published, aborted>>

\* A handler that drops the surface of a slice whose fetch returned nullptr.
H_Fetch_NullDropsSurface ==
  /\ program = "occupancy_grid_node" /\ ~aborted
  /\ handler.pc = "fetch"
  /\ \E r \in FetchOutcomes, v \in Versions, b \in Bodies :
       LET e == handler.entry IN
       CASE r = "null" ->
              /\ handler' = [handler EXCEPT !.entry = NoEntry,
                                            !.pc = "entry",
                                            !.fetched_textures = "null"]
              /\ submap_slices_' = [submap_slices_ EXCEPT ![e.id].surface = 0]
              /\ UNCHANGED aborted
         [] r = "empty" ->
              /\ aborted' = TRUE
              /\ UNCHANGED <<submap_slices_, handler>>
         [] OTHER ->
              /\ submap_slices_' = [submap_slices_ EXCEPT ![e.id].fetched =
                                      [version |-> v, body |-> b]]
              /\ handler' = [handler EXCEPT !.pc = "version",
                                            !.fetched_textures = "ok"]
              /\ UNCHANGED aborted
  /\ UNCHANGED <<program, call, dvars, node_mutex_, spinner, num_subscribers,
                 last_frame_id_, last_timestamp_, drawer, published>>

\* Lines 116-121: the fetch is a blocking call made with mutex_ held.
H_Fetch ==
  /\ program = "occupancy_grid_node" /\ ~aborted
  /\ handler.pc = "fetch"
  /\ \E r \in FetchOutcomes, v \in Versions, b \in Bodies :
       LET e == handler.entry IN
       CASE r = "null" ->
              /\ handler' = [handler EXCEPT !.entry = NoEntry,
                                            !.pc = "entry",
                                            !.fetched_textures = "null"]
              /\ UNCHANGED <<submap_slices_, aborted>>
         [] r = "empty" ->
              /\ aborted' = TRUE
              /\ UNCHANGED <<submap_slices_, handler>>
         [] OTHER ->
              /\ submap_slices_' = [submap_slices_ EXCEPT ![e.id].fetched =
                                      [version |-> v, body |-> b]]
              /\ handler' = [handler EXCEPT !.pc = "version",
                                            !.fetched_textures = "ok"]
              /\ UNCHANGED aborted
  /\ UNCHANGED <<program, call, dvars, node_mutex_, spinner, num_subscribers,
                 last_frame_id_, last_timestamp_, drawer, published>>

\* A handler that records the version of the list entry instead.
InstalledVersion_FromMetadata(fetched, submap_version) == submap_version

\* Line 122: the version the slice records for the fetched texture.
InstalledVersion(fetched, submap_version) == fetched.version

H_SetVersion ==
  /\ program = "occupancy_grid_node" /\ ~aborted
  /\ handler.pc = "version"
  /\ LET e == handler.entry IN
       submap_slices_' = [submap_slices_ EXCEPT ![e.id].version =
                           InstalledVersion(submap_slices_[e.id].fetched,
                                            e.version)]
  /\ handler' = [handler EXCEPT !.pc = "surface"]
  /\ UNCHANGED <<program, call, dvars, node_mutex_, spinner, num_subscribers,
                 last_frame_id_, last_timestamp_, drawer, published, aborted>>

\* Lines 127-159: width, height, slice_pose and resolution are copied,
\* cairo_data is cleared and refilled, and the surface is created over it.
H_SetSurface ==
  /\ program = "occupancy_grid_node" /\ ~aborted
  /\ handler.pc = "surface"
  /\ LET e == handler.entry
         body == submap_slices_[e.id].fetched.body
     IN submap_slices_' = [submap_slices_ EXCEPT ![e.id].dims = body,
                                                ![e.id].cairo_data = body,
                                                ![e.id].surface = body]
  /\ handler' = [handler EXCEPT !.pc = "entry", !.entry = NoEntry]
  /\ UNCHANGED <<program, call, dvars, node_mutex_, spinner, num_subscribers,
                 last_frame_id_, last_timestamp_, drawer, published, aborted>>

\* A handler that publishes the grid on its way out.
H_Finish_Publishes(frame_id, stamp) ==
  /\ program = "occupancy_grid_node" /\ ~aborted
  /\ handler.pc = "entry"
  /\ last_timestamp_' = stamp
  /\ last_frame_id_' = frame_id
  /\ handler' = IdleHandler
  /\ spinner' = "none"
  /\ node_mutex_' = Free
  /\ published' = [sent |-> TRUE, frame_id |-> frame_id, stamp |-> stamp]
  /\ UNCHANGED <<program, call, dvars, num_subscribers, submap_slices_, drawer,
                 aborted>>

\* Lines 161-163.
H_Finish(frame_id, stamp) ==
  /\ program = "occupancy_grid_node" /\ ~aborted
  /\ handler.pc = "entry"
  /\ last_timestamp_' = stamp
  /\ last_frame_id_' = frame_id
  /\ handler' = IdleHandler
  /\ spinner' = "none"
  /\ node_mutex_' = Free
  /\ UNCHANGED <<program, call, dvars, num_subscribers, submap_slices_, drawer,
                 published, aborted>>

\* -------------------------------------------------- Node::DrawAndPublish
\* The wall timer fires and ros::spin() runs the callback.
P_Begin ==
  /\ program = "occupancy_grid_node" /\ ~aborted
  /\ spinner = "none"
  /\ spinner' = "DrawAndPublish"
  /\ drawer' = "check"
  /\ published' = NoGrid
  /\ UNCHANGED <<program, call, dvars, node_mutex_, num_subscribers,
                 submap_slices_, last_frame_id_, last_timestamp_, handler,
                 aborted>>

\* A test that only asks for a recorded frame id.
P_Check_FrameIdOnly ==
  /\ program = "occupancy_grid_node"
  /\ drawer = "check"
  /\ IF last_frame_id_ = ""
     THEN /\ drawer' = "idle"
          /\ spinner' = "none"
     ELSE /\ drawer' = "lock"
          /\ UNCHANGED spinner
  /\ UNCHANGED <<program, call, dvars, node_mutex_, num_subscribers,
                 submap_slices_, last_frame_id_, last_timestamp_, handler,
                 published, aborted>>

\* Lines 166-168, before the lock of line 170 is taken.
P_Check ==
  /\ program = "occupancy_grid_node"
  /\ drawer = "check"
  /\ IF (\A id \in SubmapIds : ~submap_slices_[id].listed)
        \/ last_frame_id_ = ""
     THEN /\ drawer' = "idle"
          /\ spinner' = "none"
     ELSE /\ drawer' = "lock"
          /\ UNCHANGED spinner
  /\ UNCHANGED <<program, call, dvars, node_mutex_, num_subscribers,
                 submap_slices_, last_frame_id_, last_timestamp_, handler,
                 published, aborted>>

\* Line 170.
P_Lock ==
  /\ program = "occupancy_grid_node"
  /\ drawer = "lock"
  /\ node_mutex_ = Free
  /\ node_mutex_' = <<"drawer", 0>>
  /\ drawer' = "paint"
  /\ UNCHANGED <<program, call, dvars, spinner, num_subscribers, submap_slices_,
                 last_frame_id_, last_timestamp_, handler, published,
                 aborted>>

\* Lines 171-174: the slices with a surface are painted and published.
P_Publish ==
  /\ program = "occupancy_grid_node"
  /\ drawer = "paint"
  /\ published' = [sent |-> TRUE, frame_id |-> last_frame_id_,
                   stamp |-> last_timestamp_]
  /\ drawer' = "idle"
  /\ spinner' = "none"
  /\ node_mutex_' = Free
  /\ UNCHANGED <<program, call, dvars, num_subscribers, submap_slices_,
                 last_frame_id_, last_timestamp_, handler, aborted>>

NodeNext ==
  \/ Subscribe
  \/ H_Lock
  \/ H_Subscribers
  \/ \E id \in SubmapIds, v \in Versions, p \in Poses :
       H_Entry([id |-> id, version |-> v, pose |-> p])
  \/ H_Fetch
  \/ H_SetVersion
  \/ H_SetSurface
  \/ \E f \in FrameIds, st \in Stamps : H_Finish(f, st)
  \/ P_Begin
  \/ P_Check
  \/ P_Lock
  \/ P_Publish

\* =========================================================== FetchSubmapTexture
\* rosbag_validate_main.cc line 452.
num_pixels(width, height) == width * height

\* A check that only asks for enough bytes.
CellsSizeChecked_AtLeast(cells, width, height) ==
  Len(cells) >= 2 * num_pixels(width, height)

\* Line 453: CHECK_EQ(cells.size(), 2 * num_pixels).
CellsSizeChecked(cells, width, height) ==
  Len(cells) = 2 * num_pixels(width, height)

\* A decoder that takes the first half of the payload for the intensities.
Intensity_Planar(cells, width, height) ==
  [k \in 1..num_pixels(width, height) |-> cells[k]]

\* Lines 454-463: the k-th push_back of the two loops is the one of row
\* i = (k-1) \div width and column j = (k-1) % width.
Intensity(cells, width, height) ==
  [k \in 1..num_pixels(width, height) |->
     LET i == (k - 1) \div width
         j == (k - 1) % width
     IN cells[(i * width + j) * 2 + 1]]

Alpha(cells, width, height) ==
  [k \in 1..num_pixels(width, height) |->
     LET i == (k - 1) \div width
         j == (k - 1) % width
     IN cells[(i * width + j) * 2 + 1 + 1]]

\* Lines 437-467. A failed call returns nullptr (443-445), a response without
\* textures fails the CHECK of line 446, a payload of the wrong size the
\* CHECK_EQ of line 453; otherwise the texture is returned.
FetchSubmapTexture ==
  /\ program = "FetchSubmapTexture"
  /\ call.pc = "called"
  /\ call' =
       CASE call.response = "failed" -> [call EXCEPT !.pc = "nullptr"]
         [] call.response = "no_textures" -> [call EXCEPT !.pc = "aborted"]
         [] call.response = "texture"
              /\ ~CellsSizeChecked(call.cells, call.width, call.height) ->
              [call EXCEPT !.pc = "aborted"]
         [] OTHER ->
              [pc |-> "returned", response |-> call.response,
               width |-> call.width, height |-> call.height,
               cells |-> call.cells,
               intensity |-> Intensity(call.cells, call.width, call.height),
               alpha |-> Alpha(call.cells, call.width, call.height)]
  /\ UNCHANGED <<program, dvars, nvars>>

\* ============================================ one pixel through the node
\* A cell counts as never observed whenever its alpha is 0.
Observed_AlphaOnly(i, a) == IF a = 0 THEN 0 ELSE MaxByte

\* part_001 line 146.
Observed(i, a) == IF i = 0 /\ a = 0 THEN 0 ELSE MaxByte

\* Lines 147-148: the uint32_t (alpha << 24) | (intensity << 16) |
\* (observed << 8) | 0, held as its four bytes.
Packed(i, a) == [a |-> a, r |-> i, g |-> Observed(i, a), b |-> 0]

\* Lines 141-149: the pixel is packed into cairo_data.
PackPixel ==
  /\ program = "pixel"
  /\ call.pc = "texture"
  /\ call' = [pc |-> "cairo_data", intensity |-> call.intensity,
              alpha |-> call.alpha,
              packed |-> Packed(call.intensity, call.alpha)]
  /\ UNCHANGED <<program, dvars, nvars>>

\* common::RoundToInt of the quotient num / den >= 0: std::lround.
RoundToInt(num, den) == (2 * num + den) \div (2 * den)

\* Lines 203-206: color = packed >> 16 and observed = packed >> 8, each cut
\* to an unsigned char; (1. - color / 255.) * 100. is (255 - color) * 100 / 255.
Value(packed) ==
  LET color == packed.r
      observed == packed.g
  IN IF observed = 0 THEN -1
     ELSE RoundToInt((MaxByte - color) * 100, MaxByte)

\* Lines 202-209: the pixel is read back; the CHECKs of lines 207-208 abort
\* on a value outside -1..100, otherwise the value goes into the grid.
UnpackPixel ==
  /\ program = "pixel"
  /\ call.pc = "cairo_data"
  /\ LET value == Value(call.packed) IN
       call' = [call EXCEPT !.pc = IF -1 <= value /\ 100 >= value
                                   THEN "published" ELSE "aborted",
                            !.packed = call.packed] @@ [value |-> value]
  /\ UNCHANGED <<program, dvars, nvars>>

\* ============================================== DrawableSubmap::SetAlpha
Abs(x) == IF x < 0 THEN -x ELSE x

Max(x, y) == IF x >= y THEN x ELSE y

\* part_000 lines 154-155.
distance_z(pose_z, current_tracking_z) == Abs(pose_z - current_tracking_z)

\* Lines 156-157.
fade_distance(distance) ==
  Max(distance - kFadeOutStartDistanceInMeters * UnitsPerMeter, 0)

\* Lines 158-159: 1. - fade_distance / kFadeOutDistanceInMeters, cut at 0.
target_alpha(fade) ==
  Max(0, AlphaOne
           - (fade * AlphaOne) \div (kFadeOutDistanceInMeters * UnitsPerMeter))

\* A test without the two extreme values.
AlphaReplaced_ThresholdOnly(target, current) ==
  Abs(target - current) > kAlphaUpdateThreshold

\* Lines 161-162: whether current_alpha_ is overwritten.
AlphaReplaced(target, current) ==
  \/ Abs(target - current) > kAlphaUpdateThreshold
  \/ target = 0
  \/ target = AlphaOne

\* Lines 153-167: one call of SetAlpha; line 165 hands the stored alpha to
\* the scene node.
SetAlpha(current_tracking_z) ==
  /\ program = "SetAlpha"
  /\ call.calls < MaxAlphaCalls
  /\ LET target == target_alpha(fade_distance(
                      distance_z(call.pose_z, current_tracking_z)))
         stored == IF AlphaReplaced(target, call.current_alpha_)
                   THEN target ELSE call.current_alpha_
     IN call' = [pc |-> "SetAlpha", pose_z |-> call.pose_z,
                 current_alpha_ |-> stored, ogre_alpha |-> stored,
                 calls |-> call.calls + 1,
                 current_tracking_z |-> current_tracking_z,
                 previous_alpha |-> call.current_alpha_,
                 target_alpha |-> target]
  /\ UNCHANGED <<program, dvars, nvars>>

\* ============================================ Node::PublishOccupancyGrid
\* A loop that goes through the rows from the top.
GridData_TopDown(pixel_data, width, height) ==
  [k \in 1..(width * height) |->
     LET y == (k - 1) \div width
         x == (k - 1) % width
     IN Value(pixel_data[y * width + x + 1])]

\* part_001 lines 200-211: the k-th push_back of the two loops is the one of
\* y = height - 1 - (k-1) \div width and x = (k-1) % width; it reads
\* pixel_data[y * width + x].
GridData(pixel_data, width, height) ==
  [k \in 1..(width * height) |->
     LET y == height - 1 - (k - 1) \div width
         x == (k - 1) % width
     IN Value(pixel_data[y * width + x + 1])]

\* Lines 176-213: width and height are taken from the surface, the cells are
\* pushed back, each past the CHECKs of lines 207-208, and the grid is
\* published.
PublishOccupancyGrid ==
  /\ program = "PublishOccupancyGrid"
  /\ call.pc = "painted"
  /\ LET data == GridData(call.pixel_data, call.width, call.height) IN
       call' = [pc |-> IF \A k \in 1..Len(data) :
                            -1 <= data[k] /\ 100 >= data[k]
                       THEN "published" ELSE "aborted",
                width |-> call.width, height |-> call.height,
                pixel_data |-> call.pixel_data,
                info |-> [width |-> call.width, height |-> call.height],
                data |-> data]
  /\ UNCHANGED <<program, dvars, nvars>>

\* ===================================================== rosbag_validate Run
\* rosbag_validate_main.cc lines 198-291: one iteration of the loop over the
\* messages of the bag. A type without a header of interest continues at
\* lines 229-235. Otherwise the frame id is entered on its first message
\* (lines 237-245), a time delta is recorded on every later one (lines
\* 247-259) and last_timestamp is set (line 267).
Run_Message(type, frame_id, time) ==
  /\ program = "rosbag_validate"
  /\ call.pc = "reading"
  /\ call.message_index < MaxMessages
  /\ IF type = "tf2_msgs/TFMessage"
     THEN call' = [call EXCEPT !.message_index = @ + 1]
     ELSE LET old == call.frame_id_to_properties[frame_id]
              first_packet == ~old.present
              delta_t_sec == time - old.last_timestamp
              entry ==
                [present |-> TRUE,
                 last_timestamp |-> time,
                 time_deltas |-> IF first_packet THEN <<>>
                                 ELSE Append(old.time_deltas, delta_t_sec),
                 received |-> old.received + 1,
                 stamp |-> time]
          IN call' = [call EXCEPT !.message_index = @ + 1,
                                  !.frame_id_to_properties[frame_id] = entry]
  /\ UNCHANGED <<program, dvars, nvars>>

\* Line 292: the bag is read through.
Run_Close ==
  /\ program = "rosbag_validate"
  /\ call.pc = "reading"
  /\ call' = [call EXCEPT !.pc = "closed"]
  /\ UNCHANGED <<program, dvars, nvars>>

\* The largest element of a non-empty sequence.
max_element(deltas) ==
  CHOOSE m \in {deltas[i] : i \in 1..Len(deltas)} :
    \A i \in 1..Len(deltas) : deltas[i] <= m

\* Lines 309-313: for every frame id of the map, max_time_delta is read
\* through the iterator std::max_element returns. For an empty time_deltas
\* that iterator is end(): reading through it is undefined, the run crashes
\* or goes on with whatever value was read.
Run_MaxTimeDelta ==
  /\ program = "rosbag_validate"
  /\ call.pc = "closed"
  /\ LET properties == call.frame_id_to_properties
         undefined == \E f \in BagFrameIds :
                        properties[f].present /\ properties[f].time_deltas = <<>>
     IN \E read \in [BagFrameIds -> (-MaxStamp)..MaxStamp], crash \in BOOLEAN :
          /\ crash => undefined
          /\ \A f \in BagFrameIds :
               IF ~properties[f].present THEN read[f] = 0
               ELSE properties[f].time_deltas # <<>> =>
                      read[f] = max_element(properties[f].time_deltas)
          /\ call' = [call EXCEPT !.pc = IF crash THEN "crashed" ELSE "reported",
                                  !.max_time_delta = read]
  /\ UNCHANGED <<program, dvars, nvars>>

\* ======================================== RangeDataChecker::CheckMessage
\* Vector4f +=: a sum with a NaN in it is NaN.
Plus(a, b) ==
  IF a.nan \/ b.nan THEN NaN ELSE [nan |-> FALSE, value |-> a.value + b.value]

\* rosbag_validate_main.cc lines 178-181.
RECURSIVE points_sum(_)
points_sum(point_cloud) ==
  IF point_cloud = <<>> THEN Zero
  ELSE Plus(points_sum(SubSeq(point_cloud, 1, Len(point_cloud) - 1)),
            point_cloud[Len(point_cloud)])

\* Lines 174-183.
ComputeRangeChecksum(point_cloud) ==
  [present |-> TRUE, first |-> Len(point_cloud),
   second |-> points_sum(point_cloud)]

\* Line 158: operator== of the pair; two vectors are equal when all their
\* coefficients are, and a NaN equals nothing.
ChecksumsEqual(previous_checksum, current_checksum) ==
  /\ previous_checksum.first = current_checksum.first
  /\ ~previous_checksum.second.nan
  /\ ~current_checksum.second.nan
  /\ previous_checksum.second.value = current_checksum.second.value

\* A checker that also compares and stores the messages without points.
EmptyCloud_Never(current_checksum) == FALSE

\* Line 153: the test that returns for a message without points.
EmptyCloud(current_checksum) == current_checksum.first = 0

\* Lines 150-168: one call of CheckMessage. LOG_FIRST_N counts the times its
\* statement is reached, up to one past n, and logs while the count is at
\* most n.
CheckMessage(type, frame_id, point_cloud) ==
  /\ program = "RangeDataChecker"
  /\ call.checks < MaxChecks
  /\ LET current_checksum == ComputeRangeChecksum(point_cloud)
         it == call.frame_id_to_range_checksum[frame_id]
         equal == it.present /\ ChecksumsEqual(it, current_checksum)
         occurrences == call.LOG_OCCURRENCES[type]
         counted == IF equal /\ occurrences <= kLogFirstN
                    THEN occurrences + 1 ELSE occurrences
         earlier == call.recent[frame_id]
         repeats == /\ point_cloud # <<>>
                    /\ earlier # <<>>
                    /\ ChecksumsEqual(ComputeRangeChecksum(earlier),
                                      ComputeRangeChecksum(point_cloud))
         history ==
           [call EXCEPT
              !.pc = "checked", !.checks = @ + 1,
              !.message = [type |-> type, frame_id |-> frame_id,
                           points |-> point_cloud],
              !.earlier = earlier,
              !.recent[frame_id] = IF point_cloud = <<>> THEN @
                                   ELSE point_cloud,
              !.duplicates[type] = IF repeats THEN @ + 1 ELSE @]
     IN call' = IF EmptyCloud(current_checksum)
                THEN [history EXCEPT !.reported = FALSE]
                ELSE [history EXCEPT
                        !.reported = equal /\ counted <= kLogFirstN,
                        !.LOG_OCCURRENCES[type] = counted,
                        !.frame_id_to_range_checksum[frame_id] =
                          current_checksum]
  /\ UNCHANGED <<program, dvars, nvars>>

FunctionNext ==
  \/ \E type \in RangeTypes, f \in BagFrameIds, points \in PointClouds :
       CheckMessage(type, f, points)
  \/ \E type \in BagTypes, f \in BagFrameIds, t \in BagStamps :
       Run_Message(type, f, t)
  \/ Run_Close
  \/ Run_MaxTimeDelta
  \/ PublishOccupancyGrid
  \/ FetchSubmapTexture
  \/ PackPixel
  \/ UnpackPixel
  \/ \E z \in TrackingZs : SetAlpha(z)

Next == RvizNext \/ NodeNext \/ FunctionNext

Spec == Init /\ [][Next]_vars

\* Scheduling: a thread that can run does run; a thread waiting for mutex_
\* gets it when it is released again and again. Nothing makes the remote
\* call return, the clock advance or the owner call a member function.
Fairness ==
  /\ \A t \in TaskIds :
       /\ SF_vars(T_Lock(t))
       /\ WF_vars(T_Clear(t) \/ T_Check(t) \/ T_Install(t) \/ T_Emit(t)
                    \/ T_Unlock(t) \/ T_Exit(t))
  /\ \A c \in Callers :
       WF_vars(MFT_Check(c) \/ MFT_Set(c) \/ MFT_Launch(c) \/ MFT_Assign(c))
  /\ WF_vars(U_Update)
  /\ WF_vars(US_Update)

LiveSpec == Spec /\ Fairness

\* The fetch of the handler returns a texture of the version the list entry
\* announced.
H_FetchSucceeds(id) ==
  /\ H_Fetch
  /\ handler.entry.id = id
  /\ handler'.fetched_textures = "ok"
  /\ submap_slices_'[id].fetched.version = handler.entry.version

\* The environment of self-healing: the scheduler keeps calling
\* MaybeFetchTexture, the clock advances, remote calls return; submap lists
\* keep arriving and keep listing every tile, and a fetch of the node that is
\* tried again and again eventually returns the listed version.
HealFairness ==
  /\ SF_vars(\E c \in Callers : MFT_Lock(c))
  /\ WF_vars(Tick)
  /\ WF_vars(\E t \in TaskIds : T_Return(t))
  /\ SF_vars(H_Lock)
  /\ WF_vars(H_Subscribers \/ H_Fetch \/ H_SetVersion \/ H_SetSurface
               \/ (\E f \in FrameIds, st \in Stamps : H_Finish(f, st))
               \/ P_Check \/ P_Lock \/ P_Publish)
  /\ \A id \in SubmapIds :
       /\ SF_vars(\E v \in Versions, p \in Poses :
                    H_Entry([id |-> id, version |-> v, pose |-> p]))
       /\ SF_vars(H_FetchSucceeds(id))

HealSpec == Spec /\ Fairness /\ HealFairness

\* ================================================================ claims

\* C1: at most one fetch task of the tile is in flight, i.e. launched and not
\* yet past clearing query_in_progress_. While one is, the flag is set, and a
\* call that has decided to fetch found none in flight.
C1_AtMostOneFetchInFlight ==
  /\ Cardinality(InFlight) <= 1
  /\ InFlight # {} => query_in_progress_
  /\ \A c \in Callers : callers[c].pc \in {"set", "launch"} => InFlight = {}

\* A call arrives with a newer version available and the delay elapsed while
\* the one fetch task is still in flight.
C1_Witness ==
  \E c \in Callers :
    /\ callers[c].pc = "check"
    /\ Cardinality(InFlight) = 1
    /\ newer_version_available(submap_textures_, metadata_version_)
    /\ ~recently_queried(last_query_timestamp_, now)

\* C2: a fetch task whose remote call has returned, with whatever outcome,
\* eventually clears query_in_progress_; and the flag goes from true to false
\* only in that step of a fetch task.
C2_FlagAlwaysCleared ==
  /\ \A t \in TaskIds :
       (tasks[t].pc = "waitlock")
         ~> (tasks[t].pc = "check" /\ ~query_in_progress_)
  /\ [][(query_in_progress_ /\ ~query_in_progress_')
          => \E t \in TaskIds : tasks[t].pc = "clear" /\ tasks'[t].pc = "check"]_vars

\* A task whose fetch failed has just cleared the flag.
C2_Witness ==
  \E t \in TaskIds :
    /\ tasks[t].pc = "check"
    /\ tasks[t].result \in {"null", "empty"}
    /\ ~query_in_progress_

\* C3: once the destructor is past its wait (about to release the scene nodes,
\* or done), no fetch task is still before the end of its emit.
C3_NoEmitAfterRelease ==
  dtor \in {"destroy", "destroyed"}
    => \A t \in TaskIds : tasks[t].pc \in {"none", "unlock", "exiting", "done"}

\* The destructor is blocked in wait() while the task is about to emit.
C3_Witness ==
  /\ dtor = "wait"
  /\ \E t \in TaskIds : t = rpc_request_future_ /\ tasks[t].pc = "emit"


\* Positions of a fetch task inside its critical section (lines 135-144).
TaskLocked(t) == tasks[t].pc \in {"clear", "check", "install", "emit", "unlock"}

\* C4: the texture is installed before RequestSucceeded is emitted, both with
\* mutex_ held by the task; so every queued signal, and every run of
\* UpdateSceneNode, finds installed a usable texture that is the one the
\* signal announced or a later one, and the slot never reads while a task is
\* inside its critical section.
C4_SlotSeesInstalledTexture ==
  /\ \A t \in TaskIds : TaskLocked(t) => mutex_ = <<"task", t>>
  /\ \A i \in 1..Len(signals) :
       /\ submap_textures_.present
       /\ signals[i] >= 1
       /\ signals[i] <= submap_textures_.seq
  /\ slot.pc = "update" =>
       /\ mutex_ = <<"slot", 0>>
       /\ \A t \in TaskIds : ~TaskLocked(t)
       /\ submap_textures_.present
       /\ submap_textures_.count >= 1
       /\ slot.signal >= 1
       /\ slot.signal <= submap_textures_.seq

\* The slot runs for the texture that was just installed.
C4_Witness ==
  /\ slot.pc = "update"
  /\ submap_textures_.seq = slot.signal

\* C5: whenever the cache lock is free, a slice of the node with a surface has
\* its version, its dimensions, its pixel data and its surface from the one
\* texture last fetched for it; the display's cached texture set is the one of
\* the latest install, whole.
C5_SliceNotTorn ==
  /\ node_mutex_ = Free =>
       \A id \in SubmapIds :
         LET slice == submap_slices_[id] IN
         slice.surface # 0 =>
           /\ slice.version = slice.fetched.version
           /\ slice.dims = slice.fetched.body
           /\ slice.cairo_data = slice.fetched.body
           /\ slice.surface = slice.fetched.body
  /\ mutex_ = Free =>
       /\ submap_textures_.present =>
            submap_textures_.seq = installs /\ submap_textures_.count >= 1
       /\ ~submap_textures_.present => installs = 0

\* A slice holds a surface whose version is not the one of its metadata.
C5_Witness ==
  /\ node_mutex_ = Free
  /\ \E id \in SubmapIds :
       /\ submap_slices_[id].surface # 0
       /\ submap_slices_[id].version # submap_slices_[id].metadata_version

\* C6: every thread positioned at an access to the shared cache holds the
\* mutex of that cache.
C6_AllAccessUnderMutex ==
  /\ handler.pc # "idle" => node_mutex_ = <<"handler", 0>>
  /\ drawer \in {"check", "paint"} => node_mutex_ = <<"drawer", 0>>
  /\ \A t \in TaskIds : TaskLocked(t) => mutex_ = <<"task", t>>
  /\ \A c \in Callers : callers[c].pc # "idle" => mutex_ = <<"caller", c>>
  /\ updater.pc # "idle" => mutex_ = <<"update", 0>>
  /\ slot.pc # "idle" => mutex_ = <<"slot", 0>>

\* C7: a fetch task replaces the cached texture and queues RequestSucceeded
\* exactly when its fetch returned a result with at least one texture;
\* otherwise it leaves the cache as it found it and queues nothing. Nothing
\* else changes the cached texture or queues the signal.
C7_InstallIffUsable ==
  [][/\ submap_textures_' # submap_textures_ =>
          \E t \in TaskIds :
            /\ tasks[t].pc = "install"
            /\ tasks[t].result = "ok"
            /\ submap_textures_'.present
            /\ submap_textures_'.version = tasks[t].version
            /\ submap_textures_'.count >= 1
     /\ Len(signals') > Len(signals) =>
          \E t \in TaskIds :
            tasks[t].pc = "emit" /\ tasks[t].result = "ok" /\ tasks[t].installed
     /\ \A t \in TaskIds :
          (tasks[t].pc = "unlock" /\ tasks'[t].pc = "exiting") =>
            IF tasks[t].result = "ok"
            THEN /\ tasks[t].installed /\ tasks[t].emitted
                 /\ submap_textures_.version = tasks[t].version
                 /\ submap_textures_ # tasks[t].before
            ELSE /\ ~tasks[t].installed /\ ~tasks[t].emitted
                 /\ submap_textures_ = tasks[t].before]_vars

\* A fetch that returned an empty texture list ends with the texture of an
\* earlier fetch still cached.
C7_Witness ==
  \E t \in TaskIds :
    /\ tasks[t].pc = "unlock"
    /\ tasks[t].result = "empty"
    /\ submap_textures_.present
    /\ submap_textures_ = tasks[t].before

\* C8: the decision of MaybeFetchTexture is to fetch exactly when (a) nothing is
\* cached or the cached version differs from the metadata version, (b) the
\* clock is at least 250 ms past the last accepted attempt and (c) no fetch
\* task is in flight; a call that returns true has set the flag and recorded
\* the clock reading of its decision, and held mutex_ from the decision on.
C8_FetchDecision ==
  /\ [](\A c \in Callers : callers[c].pc # "idle" => mutex_ = <<"caller", c>>)
  /\ [][\A c \in Callers :
          /\ (callers[c].pc = "check" /\ callers'[c].pc # "check") =>
               ((callers'[c].pc = "set") <=>
                  /\ (~submap_textures_.present
                        \/ submap_textures_.version # metadata_version_)
                  /\ now - last_query_timestamp_ >= 250
                  /\ InFlight = {})
          /\ (callers[c].pc = "check" /\ callers'[c].pc = "set") =>
               callers'[c].now = now
          /\ (callers[c].pc = "assign" /\ callers'[c].pc = "idle") =>
               /\ query_in_progress_
               /\ last_query_timestamp_ = callers[c].now
               /\ callers[c].task \in InFlight]_vars

\* A call decides to fetch exactly 250 ms after the last accepted attempt.
C8_Witness ==
  \E c \in Callers :
    /\ callers[c].pc = "set"
    /\ last_query_timestamp_ > 0
    /\ callers[c].now = last_query_timestamp_ + 250

\* C9: with a texture cached, the delay elapsed and nothing in flight, any
\* metadata version that differs from the cached one, lower or higher, makes
\* MaybeFetchTexture fetch; and HandleSubmapList fetches for every entry whose
\* version differs from the version of the slice's surface.
C9_DifferentVersionEligible ==
  [][/\ \A c \in Callers :
          (/\ callers[c].pc = "check" /\ callers'[c].pc # "check"
           /\ submap_textures_.present
           /\ submap_textures_.version # metadata_version_
           /\ ~(last_query_timestamp_ + 250 > now)
           /\ ~query_in_progress_)
          => callers'[c].pc = "set"
     /\ (handler.pc = "entry" /\ handler'.seen \ handler.seen # {}) =>
          LET id == CHOOSE i \in handler'.seen : i \notin handler.seen IN
          (/\ submap_slices_[id].surface # 0
           /\ submap_slices_[id].version # submap_slices_'[id].metadata_version)
          => handler'.pc = "fetch"]_vars

\* A fetch is accepted for a metadata version below the cached version.
C9_Witness ==
  \E c \in Callers :
    /\ callers[c].pc = "set"
    /\ submap_textures_.present
    /\ metadata_version_ < submap_textures_.version

\* C10: any two accepted attempts are at least 250 ms apart on the clock, and
\* the recorded attempt time is always the clock reading of the last accepted
\* attempt (0 before the first).
C10_AttemptsSpaced ==
  /\ \A i, j \in 1..Len(attempts) :
       i < j => attempts[j] - attempts[i] >= 250
  /\ last_query_timestamp_ =
       IF attempts = <<>> THEN 0 ELSE attempts[Len(attempts)]

\* Two attempts were accepted exactly 250 ms apart.
C10_Witness ==
  /\ Len(attempts) = 2
  /\ attempts[2] - attempts[1] = 250

\* C11: a call of MaybeFetchTexture that returns false changes nothing: from
\* taking mutex_ to the return, the in-flight flag, the last-attempt
\* timestamp, the cached texture, the metadata, the pending future and the
\* record of accepted attempts stay as they are and no task is launched.
C11_RejectIsNoOp ==
  [][\A c \in Callers :
       ((callers[c].pc = "idle" /\ callers'[c].pc = "check")
          \/ (callers[c].pc = "check" /\ callers'[c].pc \in {"check", "idle"}))
       => /\ UNCHANGED <<query_in_progress_, last_query_timestamp_,
                         submap_textures_, metadata_version_, pose_,
                         rpc_request_future_, attempts>>
          /\ \A t \in TaskIds : tasks[t].pc = "none" => tasks'[t].pc = "none"]_vars

\* A call is about to be rejected only because the last accepted attempt is
\* too recent, with a texture of another version cached and nothing in flight.
C11_Witness ==
  \E c \in Callers :
    /\ callers[c].pc = "check"
    /\ submap_textures_.present
    /\ newer_version_available(submap_textures_, metadata_version_)
    /\ ~query_in_progress_
    /\ recently_queried(last_query_timestamp_, now)

\* C12: a metadata delivery that repeats the (pose, version) of the delivery
\* before it, for a tile whose cached texture has that version, changes no
\* cache state and leads to no fetch: in the node the slice table stays as it
\* is and the handler goes on to the next entry; in the display Update leaves
\* metadata, name, texture, flag, timestamp and future as they are and
\* MaybeFetchTexture rejects.
C12_DuplicateMetadataIdempotent ==
  [][/\ (handler.pc = "entry" /\ handler'.seen \ handler.seen # {}) =>
          LET id == CHOOSE i \in handler'.seen : i \notin handler.seen
              old == submap_slices_[id]
              new == submap_slices_'[id]
          IN (/\ old.surface # 0
              /\ old.version = new.metadata_version
              /\ old.metadata_version = new.metadata_version
              /\ old.pose = new.pose)
             => /\ submap_slices_' = submap_slices_
                /\ handler'.pc = "entry"
                /\ handler'.entry = NoEntry
     /\ (/\ updater.pc = "locked" /\ updater'.pc = "idle"
         /\ updater.version = metadata_version_
         /\ updater.pose = pose_
         /\ visibility_name_ = metadata_version_
         /\ submap_textures_.present
         /\ submap_textures_.version = metadata_version_)
        => UNCHANGED <<metadata_version_, pose_, visibility_name_,
                       submap_textures_, query_in_progress_,
                       last_query_timestamp_, rpc_request_future_, tasks,
                       attempts, signals>>
     /\ \A c \in Callers :
          (/\ callers[c].pc = "check" /\ callers'[c].pc # "check"
           /\ submap_textures_.present
           /\ submap_textures_.version = metadata_version_)
          => callers'[c].pc = "idle"]_vars

\* Update is running with the pose and version it delivered before, for a
\* tile whose cached texture has that version.
C12_Witness ==
  /\ updater.pc = "locked"
  /\ updater.pose = 1 /\ pose_ = 1
  /\ updater.version = 1 /\ metadata_version_ = 1
  /\ visibility_name_ = 1
  /\ submap_textures_.present
  /\ submap_textures_.version = 1

\* C13: a thread that waits for the remote fetch to return does not hold the
\* cache lock, so the metadata path and the redraw path can take it: a fetch
\* task of the display in its remote call does not hold mutex_, and the node
\* in its remote call neither holds mutex_ nor occupies the callback thread.
C13_FetchBlocksOnlyItsTask ==
  /\ \A t \in TaskIds : tasks[t].pc = "fetching" => mutex_ # <<"task", t>>
  /\ handler.pc = "fetch" =>
       /\ node_mutex_ # <<"handler", 0>>
       /\ spinner # "HandleSubmapList"

\* C14: a response with an empty texture list is no usable data and nothing
\* worse: the process keeps running, and a fetch task of the display that got
\* one leaves the cached texture set as it found it.
C14_EmptyListIsNoData ==
  /\ ~aborted
  /\ \A t \in TaskIds :
       (tasks[t].result = "empty" /\ TaskLocked(t))
         => /\ submap_textures_ = tasks[t].before
            /\ ~tasks[t].installed
            /\ ~tasks[t].emitted

\* C15: a fetch that returns nullptr is not an error: the process keeps
\* running and the handler goes on with the next entry, and the slice's
\* version, dimensions, pixel data and surface stay as they were. These
\* fields change only in the steps that follow a fetch that returned a
\* texture, and then to the values of that texture.
C15_FailedFetchKeepsLastGood ==
  [][/\ (handler.pc = "fetch" /\ handler'.fetched_textures = "null") =>
          /\ ~aborted'
          /\ handler'.pc = "entry"
          /\ \A id \in SubmapIds :
               /\ submap_slices_'[id].version = submap_slices_[id].version
               /\ submap_slices_'[id].dims = submap_slices_[id].dims
               /\ submap_slices_'[id].cairo_data = submap_slices_[id].cairo_data
               /\ submap_slices_'[id].surface = submap_slices_[id].surface
     /\ \A id \in SubmapIds :
          LET old == submap_slices_[id]
              new == submap_slices_'[id]
          IN (\/ new.version # old.version
              \/ new.dims # old.dims
              \/ new.cairo_data # old.cairo_data
              \/ new.surface # old.surface)
             => /\ handler.fetched_textures = "ok"
                /\ handler.entry.id = id
                /\ new.version # old.version =>
                     new.version = old.fetched.version
                /\ new.surface # old.surface =>
                     /\ new.surface = old.fetched.body
                     /\ new.cairo_data = old.fetched.body
                     /\ new.dims = old.fetched.body]_vars

\* A fetch has just returned nullptr for a slice that holds a surface of
\* another version than its metadata.
C15_Witness ==
  /\ handler.fetched_textures = "null"
  /\ \E id \in handler.seen :
       /\ \A other \in handler.seen : other <= id
       /\ submap_slices_[id].surface # 0
       /\ submap_slices_[id].version # submap_slices_[id].metadata_version

\* The clock of the model has stopped before the minimum delay elapsed.
ClockOut ==
  /\ \A d \in TickSteps : now + d > MaxNow
  /\ recently_queried(last_query_timestamp_, now)

C17_UnlistedTilesPruned ==
  [][(handler.pc = "entry" /\ handler'.pc = "idle") =>
       \A id \in SubmapIds : submap_slices_'[id].listed => id \in handler.seen]_vars

\* C18: for a response with a texture, FetchSubmapTexture aborts exactly when
\* the payload length is not 2 * width * height, and it returns a texture
\* only from a payload of that length.
C18_WrongLengthAborts ==
  (program = "FetchSubmapTexture" /\ call.pc # "called"
     /\ call.response = "texture")
    => /\ (call.pc = "aborted")
            <=> (Len(call.cells) # 2 * call.width * call.height)
       /\ (call.pc = "returned")
            <=> (Len(call.cells) = 2 * call.width * call.height)

\* The call aborted on a payload one byte longer than 2 * width * height.
C18_Witness ==
  /\ program = "FetchSubmapTexture"
  /\ call.pc = "aborted"
  /\ call.response = "texture"
  /\ call.width = 2 /\ call.height = 1
  /\ Len(call.cells) = 2 * call.width * call.height + 1

\* C19: a returned texture has width * height intensities and as many alphas,
\* pixel (row i, column j) at place i * width + j, and putting intensity[k]
\* and alpha[k] back side by side for k = 0 .. width*height-1 gives the payload
\* byte for byte.
C19_DecodeRoundTrip ==
  (program = "FetchSubmapTexture" /\ call.pc = "returned")
    => /\ Len(call.intensity) = call.width * call.height
       /\ Len(call.alpha) = call.width * call.height
       /\ \A i \in 0..(call.height - 1) : \A j \in 0..(call.width - 1) :
            /\ call.intensity[i * call.width + j + 1]
                 = call.cells[2 * (i * call.width + j) + 1]
            /\ call.alpha[i * call.width + j + 1]
                 = call.cells[2 * (i * call.width + j) + 2]
       /\ call.cells =
            [k \in 1..(2 * call.width * call.height) |->
               IF k % 2 = 1 THEN call.intensity[(k + 1) \div 2]
                            ELSE call.alpha[k \div 2]]

\* A texture of 2 x 2 pixels was decoded from 8 bytes that wrap around 255.
C19_Witness ==
  /\ program = "FetchSubmapTexture"
  /\ call.pc = "returned"
  /\ call.width = 2 /\ call.height = 2
  /\ call.cells[1] = 251
  /\ call.cells[8] = 2

\* C20: a pixel that went through the packing of HandleSubmapList and the
\* unpacking of PublishOccupancyGrid is published, never aborted on: as -1
\* when intensity and alpha are both 0, otherwise as the integer nearest to
\* (1 - intensity/255) * 100, which is 0 for intensity 255, 100 for intensity
\* 0 and always within 0..100.
C20_OccupancyValue ==
  (program = "pixel" /\ call.pc \notin {"texture", "cairo_data"})
    => /\ call.pc = "published"
       /\ call.value \in {-1} \cup 0..100
       /\ (call.value = -1) <=> (call.intensity = 0 /\ call.alpha = 0)
       /\ call.value # -1 =>
            /\ 2 * (255 * call.value - 100 * (255 - call.intensity)) <= 255
            /\ 2 * (100 * (255 - call.intensity) - 255 * call.value) < 255
            /\ call.intensity = 255 => call.value = 0
            /\ call.intensity = 0 => call.value = 100

\* A pixel of intensity 0 with alpha 0 was published, as -1.
C20_Witness ==
  /\ program = "pixel"
  /\ call.pc = "published"
  /\ call.intensity = 0 /\ call.alpha = 0
  /\ call.value = -1

\* C21: a slice enters the node's table only in the step that reads a list
\* entry with its id, and it enters without surface and without texture
\* version; a surface appears only in the step that follows a fetch which
\* returned a texture for that id, so a slice with a surface has had such a
\* fetch. In the display the cached texture is absent until a task installs
\* the result of a fetch that returned textures.
C21_SurfaceOnlyAfterFetch ==
  /\ [](\A id \in SubmapIds :
          LET slice == submap_slices_[id] IN
          /\ slice.surface # 0 => slice.listed /\ slice.fetched # NoFetch
          /\ ~slice.listed => slice = NoSlice)
  /\ [](submap_textures_.present => installs >= 1)
  /\ [][/\ \A id \in SubmapIds :
             LET old == submap_slices_[id]
                 new == submap_slices_'[id]
             IN /\ (~old.listed /\ new.listed) =>
                     /\ handler.pc = "entry"
                     /\ id \in handler'.seen \ handler.seen
                     /\ new.surface = 0
                     /\ new.version = -1
                /\ (old.surface = 0 /\ new.surface # 0) =>
                     /\ handler.pc = "surface"
                     /\ handler.fetched_textures = "ok"
                     /\ handler.entry.id = id
                     /\ new.surface = old.fetched.body
        /\ (~submap_textures_.present /\ submap_textures_'.present) =>
             \E t \in TaskIds :
               /\ tasks[t].pc = "install"
               /\ tasks[t].result = "ok"
               /\ mutex_ = <<"task", t>>]_vars

\* The fetch for a slice that the list has just created returned nullptr: the
\* handler is back at the loop head and the slice has no surface.
C21_Witness ==
  /\ handler.pc = "entry"
  /\ handler.fetched_textures = "null"
  /\ \E id \in handler.seen :
       /\ submap_slices_[id].listed
       /\ submap_slices_[id].surface = 0
       /\ submap_slices_[id].fetched = NoFetch

\* C22: a grid is composed and published only by a step of DrawAndPublish,
\* the callback of the wall timer: while HandleSubmapList runs, and when it
\* has returned, no grid has been published by it, whatever it updated or
\* fetched.
C22_PublishOnlyOnTimer ==
  /\ [](spinner = "HandleSubmapList" => ~published.sent)
  /\ [][(published'.sent /\ published' # published) =>
          /\ spinner = "DrawAndPublish"
          /\ drawer = "paint"
          /\ node_mutex_ = <<"drawer", 0>>
          /\ handler.pc = "idle"
          /\ UNCHANGED <<submap_slices_, last_frame_id_, last_timestamp_>>]_vars
  /\ [][(handler.pc # "idle" /\ handler'.pc = "idle") => ~published'.sent]_vars

\* The handler has fetched a texture and given the slice its surface, and is
\* about to return; nothing was published.
C22_Witness ==
  /\ handler.pc = "entry"
  /\ handler.fetched_textures = "ok"
  /\ \E id \in handler.seen : submap_slices_[id].surface # 0
  /\ ~published.sent

\* C23: metadata is stored by the delivery and by nothing else. Display: the
\* step that ends Update stores the delivered version and pose, with or
\* without a fetch in flight, and leaves the cached texture, the in-flight
\* flag, the last-attempt timestamp, the future and the tasks as they are; no
\* other step writes metadata_version_ or pose_. Node: the step that reads a
\* list entry stores its pose and version in the slice and leaves the
\* texture fields of the slice as they are; no other step writes them.
C23_LastDeliveryStored ==
  [][/\ IF updater.pc = "locked" /\ updater'.pc = "idle"
        THEN /\ metadata_version_' = updater.version
             /\ pose_' = updater.pose
             /\ visibility_name_' = updater.version
             /\ UNCHANGED <<submap_textures_, query_in_progress_,
                            last_query_timestamp_, rpc_request_future_,
                            tasks, attempts, signals>>
        ELSE UNCHANGED <<metadata_version_, pose_, visibility_name_>>
     /\ \A id \in SubmapIds :
          LET old == submap_slices_[id]
              new == submap_slices_'[id]
          IN IF handler.pc = "entry" /\ id \in handler'.seen \ handler.seen
             THEN /\ handler'.delivered.id = id
                  /\ new.pose = handler'.delivered.pose
                  /\ new.metadata_version = handler'.delivered.version
                  /\ new.version = old.version
                  /\ new.surface = old.surface
                  /\ new.cairo_data = old.cairo_data
                  /\ new.dims = old.dims
                  /\ new.fetched = old.fetched
             ELSE /\ new.pose = old.pose
                  /\ new.metadata_version = old.metadata_version]_vars

\* Update has stored a version while a fetch was in flight: the fetch was
\* launched for a version other than the cached one, it has not returned, and
\* the stored version is now the cached one again, with the delivered pose.
C23_Witness ==
  /\ updater.pc = "idle"
  /\ query_in_progress_
  /\ \E t \in TaskIds : tasks[t].pc = "fetching"
  /\ submap_textures_.present
  /\ submap_textures_.version = metadata_version_
  /\ pose_ = 1

\* C24: after a call of SetAlpha for a vertical distance d, the target alpha
\* is 1 for d <= 1 m, 0 for d >= 3 m and (3 m - d) / 2 m in between; the
\* stored alpha is the target if the two differ by more than 0.2 or the
\* target is 0 or 1, and the alpha stored before otherwise; the scene node
\* is given the stored alpha. Before 0.5 with target 0.55 stays 0.5, and a
\* target of 0 is always stored.
C24_AlphaHysteresis ==
  (program = "SetAlpha" /\ call.calls >= 1) =>
    LET d == IF call.pose_z >= call.current_tracking_z
             THEN call.pose_z - call.current_tracking_z
             ELSE call.current_tracking_z - call.pose_z
        target == IF d <= UnitsPerMeter THEN AlphaOne
                  ELSE IF d >= 3 * UnitsPerMeter THEN 0
                  ELSE ((3 * UnitsPerMeter - d) * AlphaOne)
                         \div (2 * UnitsPerMeter)
        before == call.previous_alpha
        far == \/ 5 * (target - before) > AlphaOne
               \/ 5 * (before - target) > AlphaOne
    IN /\ call.target_alpha = target
       /\ call.current_alpha_ =
            IF far \/ target = 0 \/ target = AlphaOne THEN target ELSE before
       /\ call.ogre_alpha = call.current_alpha_
       /\ (2 * before = AlphaOne /\ 20 * target = 11 * AlphaOne)
            => 2 * call.current_alpha_ = AlphaOne
       /\ target = 0 => call.current_alpha_ = 0

\* The second call computes a target of 0.55 for a tile whose stored alpha is
\* 0.5, and the stored alpha is still 0.5.
C24_Witness ==
  /\ program = "SetAlpha"
  /\ call.calls = 2
  /\ 2 * call.previous_alpha = AlphaOne
  /\ 20 * call.target_alpha = 11 * AlphaOne
  /\ 2 * call.current_alpha_ = AlphaOne

\* C25: the display's protocol has no deadlock. Whoever holds mutex_ can take
\* its next step without anything another thread holds: a fetch task inside
\* its critical section, emit included, the slot, Update, and a call of
\* MaybeFetchTexture, whose assignment to the future waits at most for the
\* end of the thread of a task that has already released mutex_. The slot
\* never runs inside a task's critical section. So, with threads that run
\* when they can, a mutex_ that is held is released again.
C25_DeadlockFree ==
  /\ [](/\ \A t \in TaskIds :
            mutex_ = <<"task", t>> =>
              ENABLED (T_Clear(t) \/ T_Check(t) \/ T_Install(t) \/ T_Emit(t)
                         \/ T_Unlock(t))
        /\ \A c \in Callers :
            mutex_ = <<"caller", c>> =>
              \/ ENABLED (MFT_Check(c) \/ MFT_Set(c) \/ MFT_Launch(c)
                            \/ MFT_Assign(c))
              \/ /\ callers[c].pc = "assign"
                 /\ rpc_request_future_ # 0
                 /\ tasks[rpc_request_future_].pc = "exiting"
                 /\ ENABLED T_Exit(rpc_request_future_)
        /\ mutex_ = <<"update", 0>> => ENABLED U_Update
        /\ mutex_ = <<"slot", 0>> => ENABLED US_Update
        /\ slot.pc = "update" =>
             \A t \in TaskIds :
               tasks[t].pc \notin {"clear", "check", "install", "emit",
                                   "unlock"})
  /\ (mutex_ # Free) ~> (mutex_ = Free)

\* MaybeFetchTexture, holding mutex_, is about to overwrite the future of the
\* previous task, whose thread has released mutex_ and not yet ended.
C25_Witness ==
  \E c \in Callers :
    /\ mutex_ = <<"caller", c>>
    /\ callers[c].pc = "assign"
    /\ rpc_request_future_ # 0
    /\ tasks[rpc_request_future_].pc = "exiting"

\* C26: while a RequestSucceeded is queued and while UpdateSceneNode runs,
\* submap_textures_ is non-null and holds at least one texture, so
\* textures[0] exists; and a texture set that is installed stays installed:
\* no step makes submap_textures_ null again or installs a set without
\* textures.
C26_FirstTextureValid ==
  /\ []((signals # <<>> \/ slot.pc = "update") =>
          /\ submap_textures_.present
          /\ submap_textures_.count >= 1)
  /\ [][submap_textures_.present =>
          /\ submap_textures_'.present
          /\ submap_textures_'.count >= 1
          /\ submap_textures_'.seq >= submap_textures_.seq]_vars
  /\ [][(slot.pc = "update" /\ slot'.pc = "idle") =>
          /\ ogre_submap_' = submap_textures_
          /\ ogre_submap_'.count >= 1]_vars

\* UpdateSceneNode runs for the first RequestSucceeded after a second fetch
\* has already replaced the texture set.
C26_Witness ==
  /\ slot.pc = "update"
  /\ slot.signal = 1
  /\ submap_textures_.seq = 2
  /\ submap_textures_.count >= 1

\* C27: a call of HandleSubmapList that finds no subscriber at its test
\* returns from there: it reads no list entry and starts no fetch, the slice
\* table, last_timestamp_ and last_frame_id_ stay as they are, and taking the
\* lock before the test changes none of them either.
C27_NoSubscriberNoWork ==
  [][/\ (handler.pc = "subscribers" /\ num_subscribers = 0) =>
          /\ handler'.pc \in {"subscribers", "idle"}
          /\ handler'.seen = {}
          /\ handler'.fetched_textures = "unset"
          /\ UNCHANGED <<submap_slices_, last_timestamp_, last_frame_id_,
                         published, aborted>>
          /\ handler'.pc = "idle" =>
               /\ node_mutex_' = Free
               /\ spinner' = "none"
     /\ (handler.pc = "idle" /\ handler'.pc # "idle") =>
          /\ handler'.pc = "subscribers"
          /\ UNCHANGED <<submap_slices_, last_timestamp_, last_frame_id_>>]_vars

\* HandleSubmapList is at its test with no subscriber, after an earlier list
\* has left a slice with a surface and a header.
C27_Witness ==
  /\ handler.pc = "subscribers"
  /\ num_subscribers = 0
  /\ last_frame_id_ = "map"
  /\ last_timestamp_ = 1
  /\ \E id \in SubmapIds : submap_slices_[id].surface # 0

\* C28: DrawAndPublish goes past its test, and publishes, only with a slice
\* in the table and a non-empty last_frame_id_; the grid it publishes has
\* last_frame_id_ and last_timestamp_ as they are at that moment, and these
\* two are written only by the return of a HandleSubmapList that went through
\* its list, that is, one that found a subscriber.
C28_PublishedHeader ==
  /\ []((drawer \in {"lock", "paint"} \/ published.sent) =>
          /\ \E id \in SubmapIds : submap_slices_[id].listed
          /\ last_frame_id_ # "")
  /\ [][(~published.sent /\ published'.sent) =>
          /\ published'.frame_id = last_frame_id_
          /\ published'.stamp = last_timestamp_
          /\ UNCHANGED <<last_frame_id_, last_timestamp_>>]_vars
  /\ [][(last_frame_id_' # last_frame_id_
           \/ last_timestamp_' # last_timestamp_) =>
          /\ handler.pc = "entry"
          /\ handler'.pc = "idle"
          /\ spinner = "HandleSubmapList"]_vars
  /\ [][(drawer = "check" /\ drawer' = "idle") => ~published'.sent]_vars

\* A grid with the recorded header has been published after the last
\* subscriber has left.
C28_Witness ==
  /\ published.sent
  /\ published.frame_id = "map"
  /\ published.stamp = 1
  /\ last_timestamp_ = 1
  /\ num_subscribers = 0

\* C29: the grid published for a surface of width w and height h has w * h
\* cells, and its cell at row r and column x, which is cell r * w + x of the
\* row-major array, is the value of the surface pixel at row h - 1 - r and
\* column x: -1 for a pixel never observed, else the occupancy percentage of
\* its colour byte. The width and height of the message are w and h.
C29_RowsFlipped ==
  (program = "PublishOccupancyGrid" /\ call.pc # "painted") =>
    LET w == call.width
        h == call.height
    IN /\ call.pc = "published"
       /\ call.info.width = w /\ call.info.height = h
       /\ Len(call.data) = w * h
       /\ \A r \in 0..(h - 1), x \in 0..(w - 1) :
            LET pixel == call.pixel_data[(h - 1 - r) * w + x + 1]
                cell == call.data[r * w + x + 1]
            IN cell = IF pixel.g = 0 THEN -1
                      ELSE (2 * (MaxByte - pixel.r) * 100 + MaxByte)
                             \div (2 * MaxByte)

\* A grid of three rows and two columns has been published: its first row is
\* the last row of the surface and differs from the first one.
C29_Witness ==
  /\ program = "PublishOccupancyGrid"
  /\ call.pc = "published"
  /\ call.width = 2 /\ call.height = 3
  /\ Len(call.data) = 6
  /\ <<call.data[1], call.data[2]>> # <<call.data[5], call.data[6]>>
  /\ \E k \in 1..6 : call.data[k] = -1

\* C30: in Run, a frame id that has received n messages with a header has
\* n - 1 recorded time deltas and the stamp of the latest of them as its
\* last_timestamp; and when the loop over the bag has ended, the list of time
\* deltas whose maximum is taken is non-empty for every frame id of the map.
C30_TimeDeltasPerFrame ==
  program = "rosbag_validate" =>
    \A f \in BagFrameIds :
      LET properties == call.frame_id_to_properties[f] IN
      /\ properties.present <=> properties.received >= 1
      /\ properties.present =>
           /\ Len(properties.time_deltas) = properties.received - 1
           /\ properties.last_timestamp = properties.stamp
           /\ call.pc # "reading" => properties.time_deltas # <<>>

\* The message checked last has points, and count and sum of its points equal
\* those of the latest earlier message with points of the same frame id.
RepeatsEarlier ==
  LET points == call.message.points
      earlier == call.earlier
  IN /\ points # <<>>
     /\ earlier # <<>>
     /\ Len(points) = Len(earlier)
     /\ ~points_sum(points).nan
     /\ ~points_sum(earlier).nan
     /\ points_sum(points).value = points_sum(earlier).value

\* For every frame id the checker remembers the checksum of the latest
\* message with points of that frame id, and nothing for a frame id without
\* such a message: messages without points and messages of other frame ids
\* leave it alone.
RemembersLatest ==
  \A f \in BagFrameIds :
    LET it == call.frame_id_to_range_checksum[f]
        latest == call.recent[f]
    IN /\ it.present <=> latest # <<>>
       /\ it.present =>
            /\ it.first = Len(latest)
            /\ it.second = points_sum(latest)

\* C31: a message is reported as a duplicate exactly when it has points and
\* its checksum equals that of the latest earlier message with points of the
\* same frame id and it is among the first three such messages of its
\* message type; the remembered checksum of a frame id is that of its latest
\* message with points.
C31_FirstDuplicatesReported ==
  (program = "RangeDataChecker" /\ call.pc = "checked") =>
    /\ call.reported <=>
         (RepeatsEarlier /\ call.duplicates[call.message.type] <= 3)
    /\ RemembersLatest

\* The fifth message checked is the fourth of its type to repeat the
\* checksum before it, and it is not reported.
C31_Witness ==
  /\ program = "RangeDataChecker"
  /\ call.checks = 5
  /\ RepeatsEarlier
  /\ call.duplicates[call.message.type] = 4
  /\ ~call.reported

\* C31 as stated: every message that has points and the checksum of the
\* latest earlier message with points of its frame id is reported, and no
\* other message is.
C31_EveryDuplicateReported ==
  (program = "RangeDataChecker" /\ call.pc = "checked") =>
    /\ call.reported <=> RepeatsEarlier
    /\ RemembersLatest
====
